---- MODULE Spec2Model ----
(***************************************************************************)
(* The Borders game: the useBordersGame hook (game state machine) and the  *)
(* way the App component drives it.                                        *)
(*                                                                         *)
(* Strings are sequences of character codes, so that String.toLowerCase    *)
(* and the case-insensitive comparisons of the hook are computed, not      *)
(* assumed.  "France" is <<70, 114, 97, 110, 99, 101>>.                    *)
(***************************************************************************)
EXTENDS Integers, Sequences, FiniteSets, TLC

VARIABLES
    gameState,  \* the React state cell of useBordersGame (null or a GameState)
    captured,   \* the gameState value the callbacks of the last render closed over
    last,       \* history: the last operation, its argument and what it did
    language,   \* i18n.language, the display locale
    search,     \* the CountrySearch component: query and suggestions (or unmounted)
    map         \* the CountryMap component and its loadGeoData run (or unmounted)

vars == <<gameState, captured, last, language, search, map>>

\* what the useBordersGame hook alone does not touch
ui == <<language, search, map>>

(***************************************************************************)
(* Strings                                                                 *)
(***************************************************************************)

\* String.prototype.toLowerCase on the characters the model uses (ASCII):
\* 'A'..'Z' (65..90) go to 'a'..'z' (97..122), everything else stays.
toLowerCase(s) ==
    [i \in 1..Len(s) |-> IF s[i] \in 65..90 THEN s[i] + 32 ELSE s[i]]

Andorra     == <<65, 110, 100, 111, 114, 114, 97>>
Belgium     == <<66, 101, 108, 103, 105, 117, 109>>
France      == <<70, 114, 97, 110, 99, 101>>
Germany     == <<71, 101, 114, 109, 97, 110, 121>>
Italy       == <<73, 116, 97, 108, 121>>
Japan       == <<74, 97, 112, 97, 110>>
Luxembourg  == <<76, 117, 120, 101, 109, 98, 111, 117, 114, 103>>
Monaco      == <<77, 111, 110, 97, 99, 111>>
Portugal    == <<80, 111, 114, 116, 117, 103, 97, 108>>
Spain       == <<83, 112, 97, 105, 110>>
Switzerland == <<83, 119, 105, 116, 122, 101, 114, 108, 97, 110, 100>>

(***************************************************************************)
(* Catalog and configuration                                               *)
(***************************************************************************)

\* data/countries: name -> ordered list of neighbour names (an excerpt).
countries ==
    << [name |-> Andorra,  borders |-> <<France, Spain>>],
       [name |-> France,   borders |-> <<Belgium, Germany, Italy, Luxembourg,
                                         Monaco, Spain, Switzerland>>],
       [name |-> Japan,    borders |-> <<>>],
       [name |-> Portugal, borders |-> <<Spain>>] >>

\* GAME_CONFIG.maxWrongAttempts
maxWrongAttempts == 6

\* The upper end of namesHintLevel (showNamesHint's guard).
maxNamesHintLevel == 3

(***************************************************************************)
(* useBordersGame                                                          *)
(***************************************************************************)

\* useState<GameState | null>(null): the absent game
Null == [isNull |-> TRUE]

\* validCountries keeping every country that has a border at all
validCountries_AnyBorder == SelectSeq(countries, LAMBDA c : Len(c.borders) >= 1)

\* getRandomCountry: countries.filter(c => c.borders.length >= 2)
validCountries == SelectSeq(countries, LAMBDA c : Len(c.borders) >= 2)

\* getRandomCountry: validCountries[Math.floor(random() * validCountries.length)];
\* the seed is the clock, so any index can come out.
getRandomCountry == {validCountries[i] : i \in 1..Len(validCountries)}

\* the object startGame passes to setGameState
newGame(country) ==
    [ currentCountry |-> country,
      guesses        |-> <<>>,
      correctGuesses |-> <<>>,
      wrongGuesses   |-> 0,
      gameOver       |-> FALSE,
      won            |-> FALSE,
      showOutlines   |-> FALSE,
      namesHintLevel |-> 0 ]

\* alreadyGuessed looking at correctGuesses instead of the guess log
alreadyGuessed_CorrectOnly(gs, countryName) ==
    \E i \in 1..Len(gs.correctGuesses) :
        toLowerCase(gs.correctGuesses[i]) = toLowerCase(countryName)

\* alreadyGuessed comparing the texts as typed
alreadyGuessed_CaseSensitive(gs, countryName) ==
    \E i \in 1..Len(gs.guesses) : gs.guesses[i].countryName = countryName

\* gameState.guesses.some(g => g.countryName.toLowerCase() === countryName.toLowerCase())
alreadyGuessed(gs, countryName) ==
    \E i \in 1..Len(gs.guesses) :
        toLowerCase(gs.guesses[i].countryName) = toLowerCase(countryName)

\* isTargetItself comparing the texts as typed
isTargetItself_CaseSensitive(gs, countryName) ==
    countryName = gs.currentCountry.name

\* countryName.toLowerCase() === gameState.currentCountry.name.toLowerCase()
isTargetItself(gs, countryName) ==
    toLowerCase(countryName) = toLowerCase(gs.currentCountry.name)

\* isCorrect without the map(b => b.toLowerCase())
isCorrect_BordersAsSpelled(gs, countryName) ==
    \E i \in 1..Len(gs.currentCountry.borders) :
        gs.currentCountry.borders[i] = toLowerCase(countryName)

\* gameState.currentCountry.borders.map(b => b.toLowerCase()).includes(countryName.toLowerCase())
isCorrect(gs, countryName) ==
    \E i \in 1..Len(gs.currentCountry.borders) :
        toLowerCase(gs.currentCountry.borders[i]) = toLowerCase(countryName)

\* borders.every(border => newCorrectGuesses.some(g => g.toLowerCase() === border.toLowerCase()))
allBordersFound(borders, newCorrectGuesses) ==
    \A i \in 1..Len(borders) :
        \E j \in 1..Len(newCorrectGuesses) :
            toLowerCase(newCorrectGuesses[j]) = toLowerCase(borders[i])

\* maxWrongReached with > for >=
maxWrongReached_OffByOne(newWrongGuesses) == newWrongGuesses > maxWrongAttempts

\* newWrongGuesses >= GAME_CONFIG.maxWrongAttempts
maxWrongReached(newWrongGuesses) == newWrongGuesses >= maxWrongAttempts

\* acceptedGuess with won set to the gameOver value
acceptedGuess_WonWhenOver(gs, countryName) ==
    LET correct           == isCorrect(gs, countryName)
        newGuess          == [countryName |-> countryName, isCorrect |-> correct]
        newGuesses        == Append(gs.guesses, newGuess)
        newCorrectGuesses == IF correct THEN Append(gs.correctGuesses, countryName)
                                        ELSE gs.correctGuesses
        newWrongGuesses   == IF correct THEN gs.wrongGuesses ELSE gs.wrongGuesses + 1
        found             == allBordersFound(gs.currentCountry.borders, newCorrectGuesses)
    IN  [gs EXCEPT !.guesses        = newGuesses,
                   !.correctGuesses = newCorrectGuesses,
                   !.wrongGuesses   = newWrongGuesses,
                   !.gameOver       = found \/ maxWrongReached(newWrongGuesses),
                   !.won            = found \/ maxWrongReached(newWrongGuesses)]

\* acceptedGuess counting every accepted guess against the player
acceptedGuess_AlwaysCountsWrong(gs, countryName) ==
    LET correct           == isCorrect(gs, countryName)
        newGuess          == [countryName |-> countryName, isCorrect |-> correct]
        newGuesses        == Append(gs.guesses, newGuess)
        newCorrectGuesses == IF correct THEN Append(gs.correctGuesses, countryName)
                                        ELSE gs.correctGuesses
        newWrongGuesses   == gs.wrongGuesses + 1
        found             == allBordersFound(gs.currentCountry.borders, newCorrectGuesses)
    IN  [gs EXCEPT !.guesses        = newGuesses,
                   !.correctGuesses = newCorrectGuesses,
                   !.wrongGuesses   = newWrongGuesses,
                   !.gameOver       = found \/ maxWrongReached(newWrongGuesses),
                   !.won            = found]

\* The state an accepted guess passes to setGameState.
acceptedGuess(gs, countryName) ==
    LET correct           == isCorrect(gs, countryName)
        newGuess          == [countryName |-> countryName, isCorrect |-> correct]
        newGuesses        == Append(gs.guesses, newGuess)
        newCorrectGuesses == IF correct THEN Append(gs.correctGuesses, countryName)
                                        ELSE gs.correctGuesses
        newWrongGuesses   == IF correct THEN gs.wrongGuesses ELSE gs.wrongGuesses + 1
        found             == allBordersFound(gs.currentCountry.borders, newCorrectGuesses)
    IN  [gs EXCEPT !.guesses        = newGuesses,
                   !.correctGuesses = newCorrectGuesses,
                   !.wrongGuesses   = newWrongGuesses,
                   !.gameOver       = found \/ maxWrongReached(newWrongGuesses),
                   !.won            = found]

\* The handlers below give the setGameState calls the callback makes on the
\* state gs it closed over: <<>> when it returns early, <<s>> for setGameState(s).

\* makeGuess without the gameOver guard
makeGuess_IgnoresGameOver(gs, countryName) ==
    IF gs = Null THEN <<>>
    ELSE IF alreadyGuessed(gs, countryName) THEN <<>>
    ELSE IF isTargetItself(gs, countryName) THEN <<>>
    ELSE <<acceptedGuess(gs, countryName)>>

makeGuess(gs, countryName) ==
    IF gs = Null THEN <<>>
    ELSE IF gs.gameOver THEN <<>>
    ELSE IF alreadyGuessed(gs, countryName) THEN <<>>
    ELSE IF isTargetItself(gs, countryName) THEN <<>>
    ELSE <<acceptedGuess(gs, countryName)>>

\* showOutlinesHint flipping the flag instead of setting it
showOutlinesHint_Toggles(gs) ==
    IF gs = Null THEN <<>>
    ELSE IF gs.gameOver THEN <<>>
    ELSE <<[gs EXCEPT !.showOutlines = ~gs.showOutlines]>>

\* showOutlinesHint without the gameOver guard
showOutlinesHint_IgnoresGameOver(gs) ==
    IF gs = Null THEN <<>>
    ELSE IF gs.showOutlines THEN <<>>
    ELSE <<[gs EXCEPT !.showOutlines = TRUE]>>

showOutlinesHint(gs) ==
    IF gs = Null THEN <<>>
    ELSE IF gs.gameOver \/ gs.showOutlines THEN <<>>
    ELSE <<[gs EXCEPT !.showOutlines = TRUE]>>

\* showNamesHint with > for >= in the level guard
showNamesHint_OffByOne(gs) ==
    IF gs = Null THEN <<>>
    ELSE IF gs.gameOver \/ gs.namesHintLevel > maxNamesHintLevel THEN <<>>
    ELSE <<[gs EXCEPT !.namesHintLevel = gs.namesHintLevel + 1]>>

\* showNamesHint without the gameOver guard
showNamesHint_IgnoresGameOver(gs) ==
    IF gs = Null THEN <<>>
    ELSE IF gs.namesHintLevel >= maxNamesHintLevel THEN <<>>
    ELSE <<[gs EXCEPT !.namesHintLevel = gs.namesHintLevel + 1]>>

showNamesHint(gs) ==
    IF gs = Null THEN <<>>
    ELSE IF gs.gameOver \/ gs.namesHintLevel >= maxNamesHintLevel THEN <<>>
    ELSE <<[gs EXCEPT !.namesHintLevel = gs.namesHintLevel + 1]>>

startGame(country) == <<newGame(country)>>

resetGame == <<Null>>

(***************************************************************************)
(* The player                                                              *)
(***************************************************************************)

\* Number of texts that name no country which the player may type.
NumFillers == 6

\* "Xa", "Xb", ...: texts that are no country of the catalog
Filler(i) == <<88, 96 + i>>

Fillers == {Filler(i) : i \in 1..NumFillers}

\* How many of the fillers are in the guess log.
fillersUsed(gs) ==
    IF gs = Null THEN 0
    ELSE Cardinality({i \in 1..Len(gs.guesses) : gs.guesses[i].countryName \in Fillers})

\* Names typed as the catalog spells them, and the same in lower case.
CanonicalTexts == {Andorra, France, Spain, Japan}
LowerCaseTexts == {toLowerCase(France), toLowerCase(Japan)}

\* The texts the player may submit in state gs.  The fillers are
\* interchangeable for the hook, so they are typed in one order: filler i+1
\* is on offer once fillers 1..i are in the log (and all of 1..i stay on offer).
Offered(gs) ==
    CanonicalTexts \cup LowerCaseTexts
        \cup {Filler(i) : i \in 1..(IF fillersUsed(gs) < NumFillers
                                    THEN fillersUsed(gs) + 1 ELSE NumFillers)}

(***************************************************************************)
(* State machine                                                           *)
(***************************************************************************)

\* NoGame / InProgress / Won / Lost of a gameState value
phase(gs) ==
    IF gs = Null THEN "NoGame"
    ELSE IF ~gs.gameOver THEN "InProgress"
    ELSE IF gs.won THEN "Won" ELSE "Lost"

NoArg == <<>>

\* One event: the handler runs on the state it closed over, its setGameState
\* calls (if any) are applied, and React renders again before the next event,
\* so the callbacks of the next event close over the new state.
Dispatch(op, arg, calls) ==
    /\ gameState' = IF calls = <<>> THEN gameState ELSE calls[Len(calls)]
    /\ captured' = gameState'
    /\ last' = [op |-> op, arg |-> arg, from |-> phase(gameState),
                changed |-> gameState' # gameState]

\* no CountrySearch / CountryMap instance
Unmounted == [mounted |-> FALSE]

\* the start screen in the default locale: no round, no search box, no map
InitUi ==
    /\ language = "en"
    /\ search = Unmounted
    /\ map = Unmounted

Init ==
    /\ gameState = Null
    /\ captured = Null
    /\ last = [op |-> "init", arg |-> NoArg, from |-> "NoGame", changed |-> FALSE]
    /\ InitUi

\* The five operations of the hook, called on the callbacks of the current
\* render; the components around the hook are left out of these steps.

StartGame ==
    /\ \E country \in getRandomCountry :
          Dispatch("startGame", NoArg, startGame(country))
    /\ UNCHANGED ui

MakeGuess ==
    /\ \E countryName \in Offered(captured) :
          Dispatch("makeGuess", countryName, makeGuess(captured, countryName))
    /\ UNCHANGED ui

ResetGame ==
    /\ Dispatch("resetGame", NoArg, resetGame)
    /\ UNCHANGED ui

ShowOutlinesHint ==
    /\ Dispatch("showOutlinesHint", NoArg, showOutlinesHint(captured))
    /\ UNCHANGED ui

ShowNamesHint ==
    /\ Dispatch("showNamesHint", NoArg, showNamesHint(captured))
    /\ UNCHANGED ui

Next ==
    \/ StartGame
    \/ MakeGuess
    \/ ResetGame
    \/ ShowOutlinesHint
    \/ ShowNamesHint

Spec == Init /\ [][Next]_vars

(***************************************************************************)
(* Properties of the game state machine                                    *)
(***************************************************************************)

HasRound == gameState # Null

\* two texts are the same name, whatever the case
SameName(a, b) == toLowerCase(a) = toLowerCase(b)

\* every border of the target is matched by some entry of correctGuesses
Covered(gs) ==
    \A b \in DOMAIN gs.currentCountry.borders :
        \E c \in DOMAIN gs.correctGuesses :
            SameName(gs.correctGuesses[c], gs.currentCountry.borders[b])

\* name is one of the target's borders, whatever the case
IsBorder(gs, name) ==
    \E b \in DOMAIN gs.currentCountry.borders :
        SameName(gs.currentCountry.borders[b], name)

\* name is in the guess log, whatever the case
InLog(gs, name) ==
    \E g \in DOMAIN gs.guesses : SameName(gs.guesses[g].countryName, name)

InProgress == HasRound /\ ~gameState.gameOver

\* the step is a call of op
Called(op) == last'.op = op

\* C1: whenever a round exists, gameOver is true exactly when wrongGuesses
\* equals maxWrongAttempts (6) or every border of the target is matched by
\* an entry of correctGuesses; so it turns true in the very step that makes
\* the 6th wrong guess or finds the last border.
C1_GameOverIff ==
    HasRound =>
        (gameState.gameOver <=>
            (gameState.wrongGuesses = 6 \/ Covered(gameState)))

\* a round just won by the guess that found the last border, after 5 wrong guesses
C1_Witness ==
    /\ HasRound
    /\ last.op = "makeGuess" /\ last.changed /\ last.from = "InProgress"
    /\ gameState.gameOver
    /\ Covered(gameState)
    /\ gameState.wrongGuesses = 5

\* C2: won is true only if gameOver is true and every border is matched; a
\* round that ended with wrongGuesses = 6 has won = FALSE.
C2_WonOnlyIfCovered ==
    HasRound =>
        /\ gameState.won => (gameState.gameOver /\ Covered(gameState))
        /\ gameState.wrongGuesses = 6 => ~gameState.won

\* a round just lost by the 6th wrong guess, with one border already found
C2_Witness ==
    /\ HasRound
    /\ last.op = "makeGuess" /\ last.changed
    /\ gameState.gameOver /\ ~gameState.won
    /\ gameState.wrongGuesses = 6
    /\ Len(gameState.correctGuesses) = 1

\* C3: in a round in progress, makeGuess with a name that is already in the
\* guess log (in any case, correct or wrong) leaves the game state unchanged.
C3_RepeatedGuessIsNoOp ==
    [][ (Called("makeGuess") /\ InProgress /\ InLog(gameState, last'.arg))
            => gameState' = gameState ]_vars

\* a border found earlier was typed again in another case, and nothing changed
C3_Witness ==
    /\ InProgress
    /\ last.op = "makeGuess" /\ ~last.changed /\ last.from = "InProgress"
    /\ \E g \in DOMAIN gameState.guesses :
          /\ gameState.guesses[g].isCorrect
          /\ gameState.guesses[g].countryName # last.arg
          /\ SameName(gameState.guesses[g].countryName, last.arg)

\* C4: makeGuess with the target country's own name, in any case, changes
\* nothing.
C4_TargetGuessIsNoOp ==
    [][ (Called("makeGuess") /\ HasRound
            /\ SameName(last'.arg, gameState.currentCountry.name))
            => gameState' = gameState ]_vars

\* the target's name was typed in lower case during a round, and nothing changed
C4_Witness ==
    /\ InProgress
    /\ last.op = "makeGuess" /\ ~last.changed /\ last.from = "InProgress"
    /\ last.arg # gameState.currentCountry.name
    /\ SameName(last.arg, gameState.currentCountry.name)
    /\ ~InLog(gameState, last.arg)

\* C5: an accepted guess (round in progress, name not in the log, name not
\* the target) appends exactly one Guess; a border (in any case) gives
\* isCorrect = TRUE, the name as typed appended to correctGuesses and
\* wrongGuesses unchanged; anything else gives isCorrect = FALSE,
\* wrongGuesses + 1 and correctGuesses unchanged.
C5_AcceptedGuess ==
    [][ (/\ Called("makeGuess")
         /\ InProgress
         /\ ~InLog(gameState, last'.arg)
         /\ ~SameName(last'.arg, gameState.currentCountry.name))
        =>
        /\ HasRound'
        /\ gameState'.guesses =
              Append(gameState.guesses,
                     [countryName |-> last'.arg,
                      isCorrect   |-> IsBorder(gameState, last'.arg)])
        /\ IF IsBorder(gameState, last'.arg)
           THEN /\ gameState'.correctGuesses =
                       Append(gameState.correctGuesses, last'.arg)
                /\ gameState'.wrongGuesses = gameState.wrongGuesses
           ELSE /\ gameState'.correctGuesses = gameState.correctGuesses
                /\ gameState'.wrongGuesses = gameState.wrongGuesses + 1
      ]_vars

\* a border typed in lower case was accepted as correct and stored as typed
C5_Witness ==
    /\ HasRound
    /\ last.op = "makeGuess" /\ last.changed
    /\ Len(gameState.guesses) >= 2
    /\ gameState.guesses[Len(gameState.guesses)] =
          [countryName |-> last.arg, isCorrect |-> TRUE]
    /\ gameState.correctGuesses[Len(gameState.correctGuesses)] = last.arg
    /\ \A b \in DOMAIN gameState.currentCountry.borders :
          gameState.currentCountry.borders[b] # last.arg
    /\ gameState.wrongGuesses >= 1

\* C6: wrongGuesses is always between 0 and maxWrongAttempts (6).
C6_WrongGuessesBounded ==
    HasRound => (gameState.wrongGuesses >= 0 /\ gameState.wrongGuesses <= 6)

\* a finished round with 6 wrong guesses on which makeGuess was called again
C6_Witness ==
    /\ HasRound
    /\ gameState.wrongGuesses = 6
    /\ last.op = "makeGuess" /\ last.from = "Lost"

\* C7: in a round, Len(correctGuesses) + wrongGuesses = Len(guesses), and no
\* two entries of the guess log have the same name, whatever the case.
C7_LogAccounting ==
    HasRound =>
        /\ Len(gameState.correctGuesses) + gameState.wrongGuesses
              = Len(gameState.guesses)
        /\ \A g, h \in DOMAIN gameState.guesses :
              SameName(gameState.guesses[g].countryName,
                       gameState.guesses[h].countryName) => g = h

\* a log with correct and wrong guesses on which a repeated wrong guess was refused
C7_Witness ==
    /\ InProgress
    /\ Len(gameState.correctGuesses) >= 1
    /\ gameState.wrongGuesses >= 2
    /\ last.op = "makeGuess" /\ ~last.changed
    /\ \E g \in DOMAIN gameState.guesses :
          /\ ~gameState.guesses[g].isCorrect
          /\ SameName(gameState.guesses[g].countryName, last.arg)

\* C8: in a round, correctGuesses has no two entries with the same name
\* (whatever the case), and every entry is, whatever the case, a border of
\* the target.
C8_CorrectGuessesDistinctBorders ==
    HasRound =>
        /\ \A c, d \in DOMAIN gameState.correctGuesses :
              SameName(gameState.correctGuesses[c], gameState.correctGuesses[d])
                  => c = d
        /\ \A c \in DOMAIN gameState.correctGuesses :
              IsBorder(gameState, gameState.correctGuesses[c])

\* two borders found, one stored in lower case, and the other case of it refused
C8_Witness ==
    /\ HasRound
    /\ Len(gameState.correctGuesses) = 2
    /\ \E c \in DOMAIN gameState.correctGuesses :
          /\ \A b \in DOMAIN gameState.currentCountry.borders :
                gameState.currentCountry.borders[b] # gameState.correctGuesses[c]
          /\ last.op = "makeGuess"
          /\ last.arg # gameState.correctGuesses[c]
          /\ SameName(last.arg, gameState.correctGuesses[c])

\* C9: once gameOver is true, makeGuess (any name), showOutlinesHint and
\* showNamesHint leave the game state unchanged; only startGame and
\* resetGame change the state of a finished round.
C9_FinishedRoundFrozen ==
    [][ (HasRound /\ gameState.gameOver) =>
            /\ (Called("makeGuess") \/ Called("showOutlinesHint")
                    \/ Called("showNamesHint")) => gameState' = gameState
            /\ gameState' # gameState =>
                  (Called("startGame") \/ Called("resetGame"))
      ]_vars

\* a hint was asked for on a finished round that still had hints to give
C9_Witness ==
    /\ HasRound /\ gameState.gameOver
    /\ last.op = "showNamesHint" /\ ~last.changed /\ last.from = "Lost"
    /\ gameState.namesHintLevel < 3
    /\ ~gameState.showOutlines

\* C10 as stated: once gameOver is true no operation takes the machine to
\* another state.
C10_FinishedIsTerminal ==
    [][ (HasRound /\ gameState.gameOver) => gameState' = gameState ]_vars

\* C10 amended: the phases are NoGame, InProgress, Won and Lost.  NoGame is
\* left only by startGame; Won and Lost are entered only from InProgress, by
\* makeGuess; a state in Won or Lost is left only by startGame (to the
\* InProgress state of a new round) or by resetGame (to NoGame) and is not
\* changed by anything else.
C10_PhaseTransitions ==
    [][ LET p == phase(gameState)
            q == phase(gameState')
        IN  /\ p = "NoGame" =>
                  \/ gameState' = gameState
                  \/ q = "InProgress" /\ Called("startGame")
            /\ p = "InProgress" =>
                  /\ q \in {"Won", "Lost"} => Called("makeGuess")
                  /\ q = "NoGame" => Called("resetGame")
            /\ p \in {"Won", "Lost"} =>
                  \/ gameState' = gameState
                  \/ q = "InProgress" /\ Called("startGame")
                  \/ q = "NoGame" /\ Called("resetGame")
      ]_vars

\* a new round was started from a won one
C10_Witness ==
    /\ InProgress
    /\ last.op = "startGame" /\ last.from = "Won"
    /\ gameState.guesses = <<>>

\* C11: startGame, from no game, a round in progress or a finished round,
\* gives a round in progress on a catalog country with at least 2 borders,
\* with empty guesses and correctGuesses, wrongGuesses = 0, gameOver, won
\* and showOutlines FALSE and namesHintLevel = 0.
C11_StartGameFresh ==
    [][ Called("startGame") =>
          \E c \in DOMAIN countries :
              /\ Len(countries[c].borders) >= 2
              /\ gameState' = [ currentCountry |-> countries[c],
                                guesses        |-> <<>>,
                                correctGuesses |-> <<>>,
                                wrongGuesses   |-> 0,
                                gameOver       |-> FALSE,
                                won            |-> FALSE,
                                showOutlines   |-> FALSE,
                                namesHintLevel |-> 0 ]
      ]_vars

\* a round in progress was replaced by a fresh round
C11_Witness ==
    /\ InProgress
    /\ last.op = "startGame" /\ last.from = "InProgress" /\ last.changed
    /\ Len(gameState.currentCountry.borders) >= 2
    /\ gameState.guesses = <<>>
    /\ gameState.namesHintLevel = 0

\* C13 as stated: each of showOutlinesHint and showNamesHint, applied to a
\* round in progress twice in a row, gives the state one application gives.
C13_BothHintsIdempotent ==
    [][ (/\ last.op \in {"showOutlinesHint", "showNamesHint"}
         /\ last.from = "InProgress"
         /\ Called(last.op))
        => gameState' = gameState ]_vars

\* C13 amended: showOutlinesHint is idempotent; showNamesHint is not: a
\* second application in a row raises namesHintLevel once more, up to 3, and
\* leaves the state as the first left it only when the first reached 3.
C13_OutlinesIdempotentNamesProgressive ==
    [][ /\ (/\ last.op = "showOutlinesHint" /\ last.from = "InProgress"
            /\ Called("showOutlinesHint"))
           => gameState' = gameState
        /\ (/\ last.op = "showNamesHint" /\ last.from = "InProgress"
            /\ Called("showNamesHint"))
           => /\ gameState'.namesHintLevel =
                    IF gameState.namesHintLevel < 3
                    THEN gameState.namesHintLevel + 1 ELSE 3
              /\ (gameState' = gameState) <=> (gameState.namesHintLevel = 3)
      ]_vars

\* showOutlinesHint was called again on the round it had just revealed, to no effect
C13_Witness ==
    /\ InProgress
    /\ last.op = "showOutlinesHint" /\ ~last.changed /\ last.from = "InProgress"
    /\ gameState.showOutlines
    /\ gameState.guesses = <<>>
    /\ gameState.namesHintLevel = 0

\* C14: namesHintLevel is always in 0..3; showNamesHint raises it by exactly
\* 1 in a round in progress below 3 and does nothing at 3; makeGuess and
\* showOutlinesHint never change it; only startGame sets it back to 0.
C14_NamesHintLevel ==
    /\ [](HasRound => gameState.namesHintLevel \in 0..3)
    /\ [][ (HasRound /\ HasRound') =>
            /\ (Called("showNamesHint") /\ ~gameState.gameOver
                    /\ gameState.namesHintLevel < 3)
                  => gameState'.namesHintLevel = gameState.namesHintLevel + 1
            /\ (Called("showNamesHint") /\ gameState.namesHintLevel = 3)
                  => gameState' = gameState
            /\ (Called("makeGuess") \/ Called("showOutlinesHint"))
                  => gameState'.namesHintLevel = gameState.namesHintLevel
            /\ gameState'.namesHintLevel < gameState.namesHintLevel
                  => (Called("startGame") /\ gameState'.namesHintLevel = 0)
         ]_vars

\* showNamesHint was refused at level 3 in a round in progress
C14_Witness ==
    /\ InProgress
    /\ last.op = "showNamesHint" /\ ~last.changed /\ last.from = "InProgress"
    /\ gameState.namesHintLevel = 3

(***************************************************************************)
(* The worked example: a round on France                                   *)
(***************************************************************************)

\* Number of makeGuess calls followed in the example round.
MaxCalls == 7

\* the catalog entry of France
FranceEntry == countries[2]

\* The texts typed in the example: "Belgium", "Japan" and the fillers, in order.
ExampleTexts(gs) ==
    {Belgium, Japan}
        \cup {Filler(i) : i \in 1..(IF fillersUsed(gs) < NumFillers
                                    THEN fillersUsed(gs) + 1 ELSE NumFillers)}

\* startGame has drawn France; last.log is the list of makeGuess arguments so far
InitFrance ==
    /\ gameState = newGame(FranceEntry)
    /\ captured = gameState
    /\ last = [op |-> "startGame", arg |-> NoArg, from |-> "NoGame",
               changed |-> TRUE, log |-> <<>>]
    /\ InitUi

\* makeGuess(countryName), as MakeGuess, with the call added to last.log
ExampleGuess ==
    /\ Len(last.log) < MaxCalls
    /\ \E countryName \in ExampleTexts(captured) :
          LET calls == makeGuess(captured, countryName)
          IN  /\ gameState' = IF calls = <<>> THEN gameState ELSE calls[Len(calls)]
              /\ captured' = gameState'
              /\ last' = [op |-> "makeGuess", arg |-> countryName,
                          from |-> phase(gameState),
                          changed |-> gameState' # gameState,
                          log |-> Append(last.log, countryName)]
    /\ UNCHANGED ui

NextFrance == ExampleGuess

SpecFrance == InitFrance /\ [][NextFrance]_vars

BelgiumThenJapanSixTimes == <<Belgium, Japan, Japan, Japan, Japan, Japan, Japan>>

\* C12 as stated: on France, after makeGuess("Belgium") correctGuesses is
\* ["Belgium"] and gameOver is FALSE, and after "Japan" is then guessed six
\* times wrongGuesses = 6, gameOver = TRUE and won = FALSE.
C12_JapanSixTimesLoses ==
    /\ last.log = <<Belgium>> =>
          (gameState.correctGuesses = <<Belgium>> /\ ~gameState.gameOver)
    /\ last.log = BelgiumThenJapanSixTimes =>
          (gameState.wrongGuesses = 6 /\ gameState.gameOver /\ ~gameState.won)

\* C12 amended: after makeGuess("Belgium") correctGuesses is ["Belgium"] and
\* gameOver is FALSE; after "Japan" is then guessed six times wrongGuesses
\* is 1 and gameOver and won are FALSE (the five repeats are refused); after
\* six different names that are neither borders nor France instead,
\* wrongGuesses = 6, gameOver = TRUE and won = FALSE.
C12_JapanSixTimesCountsOnce ==
    /\ last.log = <<Belgium>> =>
          (gameState.correctGuesses = <<Belgium>> /\ ~gameState.gameOver)
    /\ last.log = BelgiumThenJapanSixTimes =>
          /\ gameState.wrongGuesses = 1
          /\ ~gameState.gameOver /\ ~gameState.won
          /\ gameState.correctGuesses = <<Belgium>>
          /\ Len(gameState.guesses) = 2
    /\ (/\ Len(last.log) = 7
        /\ last.log[1] = Belgium
        /\ \A i, j \in 2..7 : SameName(last.log[i], last.log[j]) => i = j
        /\ \A i \in 2..7 : /\ ~IsBorder(gameState, last.log[i])
                           /\ ~SameName(last.log[i], France))
       => (gameState.wrongGuesses = 6 /\ gameState.gameOver /\ ~gameState.won)

\* the round after "Belgium" and six times "Japan"
C12_Witness ==
    /\ last.log = BelgiumThenJapanSixTimes
    /\ gameState.currentCountry.name = France
    /\ Len(gameState.currentCountry.borders) = 7
    /\ last.op = "makeGuess" /\ ~last.changed

(***************************************************************************)
(* The hook's callbacks called without a render in between                 *)
(***************************************************************************)

\* The texts passed to makeGuess by a caller holding one render's callbacks.
CallerTexts == {Belgium, Spain, Japan, Filler(1)}

\* A callback of the render that saw `captured` runs: setGameState(value)
\* replaces the state, and the component has not rendered again yet.
Call(op, arg, calls) ==
    /\ gameState' = IF calls = <<>> THEN gameState ELSE calls[Len(calls)]
    /\ captured' = captured
    /\ last' = [op |-> op, arg |-> arg, from |-> phase(gameState),
                changed |-> gameState' # gameState]

\* React renders the component with the current state: useCallback makes
\* new callbacks closing over it.
Render ==
    /\ captured # gameState
    /\ captured' = gameState
    /\ last' = [op |-> "render", arg |-> NoArg, from |-> phase(gameState),
                changed |-> FALSE]
    /\ UNCHANGED <<gameState, ui>>

CallStartGame ==
    /\ \E country \in getRandomCountry :
          Call("startGame", NoArg, startGame(country))
    /\ UNCHANGED ui

CallMakeGuess ==
    /\ \E countryName \in CallerTexts :
          Call("makeGuess", countryName, makeGuess(captured, countryName))
    /\ UNCHANGED ui

CallResetGame ==
    /\ Call("resetGame", NoArg, resetGame)
    /\ UNCHANGED ui

CallShowOutlinesHint ==
    /\ Call("showOutlinesHint", NoArg, showOutlinesHint(captured))
    /\ UNCHANGED ui

CallShowNamesHint ==
    /\ Call("showNamesHint", NoArg, showNamesHint(captured))
    /\ UNCHANGED ui

NextStale ==
    \/ Render
    \/ CallStartGame
    \/ CallMakeGuess
    \/ CallResetGame
    \/ CallShowOutlinesHint
    \/ CallShowNamesHint

SpecStale == Init /\ [][NextStale]_vars

\* the guess log of b continues the guess log of a
ExtendsLog(a, b) ==
    /\ Len(a.guesses) <= Len(b.guesses)
    /\ \A i \in 1..Len(a.guesses) : b.guesses[i] = a.guesses[i]

\* nothing of round state a is missing from round state b
KeepsAll(a, b) ==
    /\ b # Null
    /\ b.currentCountry = a.currentCountry
    /\ ExtendsLog(a, b)
    /\ Len(a.correctGuesses) <= Len(b.correctGuesses)
    /\ a.wrongGuesses <= b.wrongGuesses
    /\ a.showOutlines => b.showOutlines
    /\ a.namesHintLevel <= b.namesHintLevel

\* C16: a makeGuess, showOutlinesHint or showNamesHint call is applied to the
\* state the previous call produced, also when it runs on a callback of the
\* render before that call: no accepted guess and no hint reveal of the state
\* is lost or overwritten.
C16_NoLostUpdate ==
    [][(/\ last'.op \in {"makeGuess", "showOutlinesHint", "showNamesHint"}
        /\ gameState # Null)
       => KeepsAll(gameState, gameState')]_vars

(***************************************************************************)
(* The names hint of the game screen                                       *)
(***************************************************************************)

\* "Belize"
Belize == <<66, 101, 108, 105, 122, 101>>
\* "Gambia"
Gambia == <<71, 97, 109, 98, 105, 97>>
\* "Guatemala"
Guatemala == <<71, 117, 97, 116, 101, 109, 97, 108, 97>>
\* "Guinea"
Guinea == <<71, 117, 105, 110, 101, 97>>
\* "Guinea-Bissau"
GuineaBissau == <<71, 117, 105, 110, 101, 97, 45, 66, 105, 115, 115, 97, 117>>
\* "Mali"
Mali == <<77, 97, 108, 105>>
\* "Mauritania"
Mauritania == <<77, 97, 117, 114, 105, 116, 97, 110, 105, 97>>
\* "Mexico"
Mexico == <<77, 101, 120, 105, 99, 111>>
\* "Senegal"
Senegal == <<83, 101, 110, 101, 103, 97, 108>>
\* "United States"
UnitedStates == <<85, 110, 105, 116, 101, 100, 32, 83, 116, 97, 116, 101, 115>>

\* "Canada"
Canada == <<67, 97, 110, 97, 100, 97>>
\* "Ghana"
Ghana == <<71, 104, 97, 110, 97>>
\* "Iran"
Iran == <<73, 114, 97, 110>>
\* "Oman"
Oman == <<79, 109, 97, 110>>
\* "Poland"
Poland == <<80, 111, 108, 97, 110, 100>>
\* "Ukraine"
Ukraine == <<85, 107, 114, 97, 105, 110, 101>>
\* "United Kingdom"
UnitedKingdom == <<85, 110, 105, 116, 101, 100, 32, 75, 105, 110, 103, 100, 111, 109>>

\* The catalog entries whose borders have a space, a hyphen or a translation
\* with letters outside ASCII.
hintCountries ==
    << [name |-> Andorra, borders |-> <<France, Spain>>],
       [name |-> Mexico, borders |-> <<Belize, Guatemala, UnitedStates>>],
       [name |-> Senegal,
        borders |-> <<Gambia, Guinea, GuineaBissau, Mali, Mauritania>>] >>

languages == {"en", "pl", "es"}

\* countries.<name> of the locale files, as <<name, translation>>; the
\* English file spells the names as the catalog does.
translations ==
    [en |-> {},
     pl |-> {
        <<Andorra, <<65, 110, 100, 111, 114, 97>>>>,   \* "Andora"
        <<Belgium, <<66, 101, 108, 103, 105, 97>>>>,   \* "Belgia"
        <<Canada, <<75, 97, 110, 97, 100, 97>>>>,   \* "Kanada"
        <<Germany, <<78, 105, 101, 109, 99, 121>>>>,   \* "Niemcy"
        <<Ghana, <<71, 104, 97, 110, 97>>>>,   \* "Ghana"
        <<Iran, <<73, 114, 97, 110>>>>,   \* "Iran"
        <<Italy, <<87, 322, 111, 99, 104, 121>>>>,   \* "Włochy"
        <<Japan, <<74, 97, 112, 111, 110, 105, 97>>>>,   \* "Japonia"
        <<Luxembourg, <<76, 117, 107, 115, 101, 109, 98, 117, 114, 103>>>>,   \* "Luksemburg"
        <<Monaco, <<77, 111, 110, 97, 107, 111>>>>,   \* "Monako"
        <<Oman, <<79, 109, 97, 110>>>>,   \* "Oman"
        <<Poland, <<80, 111, 108, 115, 107, 97>>>>,   \* "Polska"
        <<Portugal, <<80, 111, 114, 116, 117, 103, 97, 108, 105, 97>>>>,   \* "Portugalia"
        <<Switzerland, <<83, 122, 119, 97, 106, 99, 97, 114, 105, 97>>>>,   \* "Szwajcaria"
        <<Ukraine, <<85, 107, 114, 97, 105, 110, 97>>>>,   \* "Ukraina"
        <<UnitedKingdom, <<87, 105, 101, 108, 107, 97, 32, 66, 114, 121, 116, 97, 110, 105, 97>>>>,   \* "Wielka Brytania"
        <<France, <<70, 114, 97, 110, 99, 106, 97>>>>,   \* "Francja"
        <<Spain, <<72, 105, 115, 122, 112, 97, 110, 105, 97>>>>,   \* "Hiszpania"
        <<Belize, <<66, 101, 108, 105, 122, 101>>>>,   \* "Belize"
        <<Guatemala, <<71, 119, 97, 116, 101, 109, 97, 108, 97>>>>,   \* "Gwatemala"
        <<UnitedStates, <<83, 116, 97, 110, 121, 32, 90, 106, 101, 100, 110, 111, 99, 122, 111, 110, 101>>>>,   \* "Stany Zjednoczone"
        <<Gambia, <<71, 97, 109, 98, 105, 97>>>>,   \* "Gambia"
        <<Guinea, <<71, 119, 105, 110, 101, 97>>>>,   \* "Gwinea"
        <<GuineaBissau, <<71, 119, 105, 110, 101, 97, 32, 66, 105, 115, 115, 97, 117>>>>,   \* "Gwinea Bissau"
        <<Mali, <<77, 97, 108, 105>>>>,   \* "Mali"
        <<Mauritania, <<77, 97, 117, 114, 101, 116, 97, 110, 105, 97>>>>   \* "Mauretania"
        },
     es |-> {
        <<Andorra, <<65, 110, 100, 111, 114, 114, 97>>>>,   \* "Andorra"
        <<Belgium, <<66, 233, 108, 103, 105, 99, 97>>>>,   \* "Bélgica"
        <<Canada, <<67, 97, 110, 97, 100, 225>>>>,   \* "Canadá"
        <<Germany, <<65, 108, 101, 109, 97, 110, 105, 97>>>>,   \* "Alemania"
        <<Ghana, <<71, 104, 97, 110, 97>>>>,   \* "Ghana"
        <<Iran, <<73, 114, 225, 110>>>>,   \* "Irán"
        <<Italy, <<73, 116, 97, 108, 105, 97>>>>,   \* "Italia"
        <<Japan, <<74, 97, 112, 243, 110>>>>,   \* "Japón"
        <<Luxembourg, <<76, 117, 120, 101, 109, 98, 117, 114, 103, 111>>>>,   \* "Luxemburgo"
        <<Monaco, <<77, 243, 110, 97, 99, 111>>>>,   \* "Mónaco"
        <<Oman, <<79, 109, 225, 110>>>>,   \* "Omán"
        <<Poland, <<80, 111, 108, 111, 110, 105, 97>>>>,   \* "Polonia"
        <<Portugal, <<80, 111, 114, 116, 117, 103, 97, 108>>>>,   \* "Portugal"
        <<Switzerland, <<83, 117, 105, 122, 97>>>>,   \* "Suiza"
        <<Ukraine, <<85, 99, 114, 97, 110, 105, 97>>>>,   \* "Ucrania"
        <<UnitedKingdom, <<82, 101, 105, 110, 111, 32, 85, 110, 105, 100, 111>>>>,   \* "Reino Unido"
        <<France, <<70, 114, 97, 110, 99, 105, 97>>>>,   \* "Francia"
        <<Spain, <<69, 115, 112, 97, 241, 97>>>>,   \* "España"
        <<Belize, <<66, 101, 108, 105, 99, 101>>>>,   \* "Belice"
        <<Guatemala, <<71, 117, 97, 116, 101, 109, 97, 108, 97>>>>,   \* "Guatemala"
        <<UnitedStates, <<69, 115, 116, 97, 100, 111, 115, 32, 85, 110, 105, 100, 111, 115>>>>,   \* "Estados Unidos"
        <<Gambia, <<71, 97, 109, 98, 105, 97>>>>,   \* "Gambia"
        <<Guinea, <<71, 117, 105, 110, 101, 97>>>>,   \* "Guinea"
        <<GuineaBissau, <<71, 117, 105, 110, 101, 97, 45, 66, 105, 115, 225, 117>>>>,   \* "Guinea-Bisáu"
        <<Mali, <<77, 97, 108, 237>>>>,   \* "Malí"
        <<Mauritania, <<77, 97, 117, 114, 105, 116, 97, 110, 105, 97>>>>   \* "Mauritania"
        }]

\* t(`countries.${name}`, { defaultValue: name })
translateCountry(lang, name) ==
    IF \E e \in translations[lang] : e[1] = name
    THEN (CHOOSE e \in translations[lang] : e[1] = name)[2]
    ELSE name

\* currentCountry.borders without those in correctGuesses
missingBorders(gs) ==
    LET unguessed(border) ==
            ~\E i \in 1..Len(gs.correctGuesses) :
                toLowerCase(gs.correctGuesses[i]) = toLowerCase(border)
    IN  SelectSeq(gs.currentCountry.borders, unguessed)

\* the character class [a-zA-Z] alone
hiddenChar_AsciiOnly(c) == (c \in 65..90) \/ (c \in 97..122)

\* the character class [a-zA-ZÀ-ɏ]
hiddenChar(c) == (c \in 65..90) \/ (c \in 97..122) \/ (c \in 192..591)

\* formatNameHint(name, lettersToShow) under the language in use
formatNameHint(lang, name, lettersToShow) ==
    LET translatedName == translateCountry(lang, name)
    IN  IF lettersToShow >= Len(translatedName)
        THEN translatedName
        ELSE [i \in 1..Len(translatedName) |->
                 IF i <= lettersToShow THEN translatedName[i]
                 ELSE IF hiddenChar(translatedName[i]) THEN 95
                 ELSE translatedName[i]]

\* The texts of the names-hint element of the game screen, <<>> when the
\* element is not rendered.
namesHint(gs, lang) ==
    IF /\ phase(gs) = "InProgress"
       /\ gs.namesHintLevel > 0
       /\ missingBorders(gs) # <<>>
    THEN [k \in 1..Len(missingBorders(gs)) |->
             formatNameHint(lang, missingBorders(gs)[k], gs.namesHintLevel)]
    ELSE <<>>

\* The texts typed while the hint is on screen.
HintTexts == {Spain, toLowerCase(France), UnitedStates, GuineaBissau}

HintStartGame ==
    /\ \E i \in 1..Len(hintCountries) :
          /\ Len(hintCountries[i].borders) >= 2
          /\ Dispatch("startGame", NoArg, startGame(hintCountries[i]))
    /\ UNCHANGED ui

HintMakeGuess ==
    /\ \E countryName \in HintTexts :
          Dispatch("makeGuess", countryName, makeGuess(captured, countryName))
    /\ UNCHANGED ui

HintShowNamesHint ==
    /\ Dispatch("showNamesHint", NoArg, showNamesHint(captured))
    /\ UNCHANGED ui

HintResetGame ==
    /\ Dispatch("resetGame", NoArg, resetGame)
    /\ UNCHANGED ui

\* LanguageSelector: i18n.changeLanguage(code)
ChangeLanguage ==
    /\ \E code \in languages : language' = code
    /\ UNCHANGED <<gameState, captured, last, search, map>>

NextHint ==
    \/ HintStartGame
    \/ HintMakeGuess
    \/ HintShowNamesHint
    \/ HintResetGame
    \/ ChangeLanguage

SpecHint == Init /\ [][NextHint]_vars

\* a letter: ASCII, Latin-1 (without the signs of multiplication and
\* division) or Latin Extended-A and -B
IsLetter(c) ==
    \/ c \in 65..90
    \/ c \in 97..122
    \/ c \in (192..255) \ {215, 247}
    \/ c \in 256..591

\* h is the hint of s at level n
IsHintOf(h, s, n) ==
    /\ Len(h) = Len(s)
    /\ \A i \in 1..Len(s) :
          h[i] = IF i <= n THEN s[i]
                 ELSE IF IsLetter(s[i]) THEN 95
                 ELSE s[i]

\* the borders with no correct guess of the same name, in catalog order
NotYetGuessed(gs) ==
    LET open(b) == ~\E i \in 1..Len(gs.correctGuesses) :
                       SameName(gs.correctGuesses[i], b)
    IN  SelectSeq(gs.currentCountry.borders, open)

\* C15: in a round in progress at hint level n in 1..3 the hints shown are
\* those of the borders not yet guessed (case-insensitively), one each and no
\* other; the hint of a border with translated name s has the length of s,
\* the first min(n, |s|) characters of s, and after them '_' for a letter of s
\* and the character of s otherwise; "Spain" in English at level 1 reads
\* "S____".
C15_NamesHintMasks ==
    (InProgress /\ gameState.namesHintLevel \in 1..3) =>
        LET shown == namesHint(gameState, language)
            open == NotYetGuessed(gameState)
        IN  /\ Len(shown) = Len(open)
            /\ \A k \in 1..Len(open) :
                  IsHintOf(shown[k], translateCountry(language, open[k]),
                           gameState.namesHintLevel)
            /\ \A k \in 1..Len(open) :
                  (open[k] = Spain /\ language = "en"
                       /\ gameState.namesHintLevel = 1)
                  => shown[k] = <<83, 95, 95, 95, 95>>

\* Andorra at level 2 in Spanish with France guessed: only "Es____" is shown
C15_Witness ==
    /\ InProgress
    /\ language = "es"
    /\ gameState.namesHintLevel = 2
    /\ gameState.currentCountry.name = Andorra
    /\ gameState.correctGuesses = <<toLowerCase(France)>>
    /\ namesHint(gameState, language) = << <<69, 115, 95, 95, 95, 95>> >>

(***************************************************************************)
(* CountryMap: loading the geometry                                        *)
(***************************************************************************)

\* The texts typed while the map loads.
MapTexts == {Spain, Japan}

\* No CountryMap on screen.  old holds the awaits at which the loaders of
\* torn-down views (their controller aborted) still stand; late holds the
\* state setters such a loader has called since.
NoMap(old, late) == [mounted |-> FALSE, old |-> old, late |-> late]

\* CountryMap mounts: useState initial values, and loadGeoData awaits fetch.
\* zoomLevel is counted in quarters: 8 is the initial zoom of 2.
mountCountryMap(old, late) ==
    [mounted |-> TRUE, geoData |-> Null, loading |-> TRUE, error |-> "null",
     zoomLevel |-> 8, pc |-> "fetch", old |-> old, late |-> late]

\* CountryMap without the effect on targetCountry
resetZoom_Never(m, before, after) == m

\* useEffect(() => setZoomLevel(2), [targetCountry]) of a mounted CountryMap
\* that is rendered with a new round
resetZoom(m, before, after) ==
    IF before # Null /\ after # Null
          /\ before.currentCountry.name # after.currentCountry.name
    THEN [m EXCEPT !.zoomLevel = 8]
    ELSE m

\* the catch block without setLoading(false)
catchError_KeepsLoading(m) ==
    [m EXCEPT !.error = "Could not load map", !.pc = "failed"]

\* catch (err), err.name # 'AbortError': setError(...); setLoading(false)
catchError(m) ==
    [m EXCEPT !.error = "Could not load map", !.loading = FALSE, !.pc = "failed"]

\* setGeoData(geoJSON); setLoading(false)
setLoaded(m) ==
    [m EXCEPT !.geoData = [features |-> "countries-110m"],
              !.loading = FALSE, !.pc = "loaded"]

\* What CountryMap returns.  The dataset has every country of the catalog, so
\* features is empty only without geoData.
renderCountryMap(m) ==
    IF m.loading THEN "Loading map..."
    ELSE IF m.error # "null" \/ m.geoData = Null THEN "nothing"
    ELSE "svg"

\* The effect cleanup: controller.abort(); a loader still at an await stays
\* behind with the aborted signal.
unmountCountryMap(m) ==
    IF ~m.mounted THEN m
    ELSE NoMap(IF m.pc \in {"fetch", "json", "import"}
               THEN m.old \cup {m.pc} ELSE m.old,
               m.late)

InitMap ==
    /\ gameState = Null
    /\ captured = gameState
    /\ last = [op |-> "init", arg |-> NoArg, from |-> "NoGame", changed |-> FALSE]
    /\ language = "en"
    /\ search = Unmounted
    /\ map = NoMap({}, {})

\* startGame; the game screen and the game-over screen both hold the
\* CountryMap, which mounts when neither was on screen
MapStartGame ==
    /\ \E country \in getRandomCountry :
          Dispatch("startGame", NoArg, startGame(country))
    /\ map' = IF map.mounted THEN resetZoom(map, gameState, gameState')
              ELSE mountCountryMap(map.old, map.late)
    /\ UNCHANGED <<language, search>>

MapMakeGuess ==
    /\ \E countryName \in MapTexts :
          Dispatch("makeGuess", countryName, makeGuess(captured, countryName))
    /\ UNCHANGED ui

MapShowOutlinesHint ==
    /\ Dispatch("showOutlinesHint", NoArg, showOutlinesHint(captured))
    /\ UNCHANGED ui

MapShowNamesHint ==
    /\ Dispatch("showNamesHint", NoArg, showNamesHint(captured))
    /\ UNCHANGED ui

\* resetGame; the start screen has no CountryMap
MapResetGame ==
    /\ Dispatch("resetGame", NoArg, resetGame)
    /\ map' = unmountCountryMap(map)
    /\ UNCHANGED <<language, search>>

\* await fetch(url, {signal}) settles; if (!response.ok) throw
FetchSettles ==
    /\ map.mounted /\ map.pc = "fetch"
    /\ \E outcome \in {"ok", "not ok", "network error"} :
          map' = IF outcome = "ok" THEN [map EXCEPT !.pc = "json"]
                 ELSE catchError(map)
    /\ UNCHANGED <<gameState, captured, last, language, search>>

\* await response.json() settles
JsonSettles ==
    /\ map.mounted /\ map.pc = "json"
    /\ \E outcome \in {"parsed", "SyntaxError"} :
          map' = IF outcome = "parsed" THEN [map EXCEPT !.pc = "import"]
                 ELSE catchError(map)
    /\ UNCHANGED <<gameState, captured, last, language, search>>

\* await import('topojson-client') settles, then feature(...) returns or throws
ImportSettles ==
    /\ map.mounted /\ map.pc = "import"
    /\ \E outcome \in {"converted", "feature throws", "import rejects"} :
          map' = IF outcome = "converted" THEN setLoaded(map)
                 ELSE catchError(map)
    /\ UNCHANGED <<gameState, captured, last, language, search>>

\* An await of the loader of a torn-down view settles.  fetch and json()
\* reject with AbortError, which the catch block drops; the import knows
\* nothing of the signal, and the code after it calls the setters.
OldLoaderSettles ==
    /\ \E pc \in map.old :
          \E outcome \in {"converted", "feature throws"} :
              map' = [map EXCEPT
                        !.old = @ \ {pc},
                        !.late = IF pc # "import" THEN @
                                 ELSE IF outcome = "converted"
                                      THEN @ \cup {"setGeoData", "setLoading"}
                                      ELSE @ \cup {"setError", "setLoading"}]
    /\ UNCHANGED <<gameState, captured, last, language, search>>

NextMap ==
    \/ MapStartGame
    \/ MapMakeGuess
    \/ MapShowOutlinesHint
    \/ MapShowNamesHint
    \/ MapResetGame
    \/ FetchSettles
    \/ JsonSettles
    \/ ImportSettles
    \/ OldLoaderSettles

SpecMap == InitMap /\ [][NextMap]_vars

\* C17: once a map view is torn down before its load has finished, whether at
\* the request, at the parsing of the body or at the import of the conversion
\* module, its loader calls none of setGeoData, setLoading and setError.
C17_NoLateUpdate == map.late = {}

\* the step is the call of a hook callback, with the result that callback
\* gives on the state before
GameStep ==
    /\ last'.op \in {"startGame", "makeGuess", "resetGame",
                     "showOutlinesHint", "showNamesHint"}
    /\ LET calls ==
               CASE last'.op = "makeGuess" -> makeGuess(gameState, last'.arg)
                 [] last'.op = "showOutlinesHint" -> showOutlinesHint(gameState)
                 [] last'.op = "showNamesHint" -> showNamesHint(gameState)
                 [] last'.op = "resetGame" -> resetGame
                 [] OTHER -> <<gameState'>>
       IN  gameState' = IF calls = <<>> THEN gameState ELSE calls[Len(calls)]
    /\ last'.op = "startGame" =>
          \E country \in getRandomCountry : gameState' = newGame(country)

\* C18: when the load has failed for a reason other than cancellation (the
\* request fails or is answered not-OK, the body does not parse, the
\* conversion throws) the map has error set, loading FALSE and no geoData
\* and renders nothing; the steps of the load leave the game state alone, and
\* makeGuess, the hints, startGame and resetGame give the results they give
\* with the map loaded.
C18_FailedLoadIsLocal ==
    /\ []((map.mounted /\ map.pc = "failed") =>
            /\ map.error # "null"
            /\ ~map.loading
            /\ map.geoData = Null
            /\ renderCountryMap(map) = "nothing")
    /\ [][IF last' = last /\ map' # map
          THEN gameState' = gameState
          ELSE GameStep]_vars

\* a guess accepted in a round whose map failed to load
C18_Witness ==
    /\ map.mounted /\ map.pc = "failed"
    /\ renderCountryMap(map) = "nothing"
    /\ last.op = "makeGuess" /\ last.changed
    /\ InProgress
    /\ gameState.correctGuesses = <<Spain>>

(***************************************************************************)
(* CountrySearch: the suggestion list                                      *)
(***************************************************************************)

\* Fuse options and the limit of searchCountries.
limit == 8
minMatchCharLength == 2
distance == 100
\* threshold 0.3, in hundredths
threshold == 30

\* Number of guesses followed in a round with the search box.
MaxGuesses == 2

\* The names of the catalog, in catalog order.
countryNames ==
    <<Andorra, Belgium, Canada, France, Germany, Ghana, Iran, Italy, Japan,
      Luxembourg, Monaco, Oman, Poland, Portugal, Spain, Switzerland, Ukraine,
      UnitedKingdom, UnitedStates>>

\* countryNames.map(name => ({original, translated}))
translatedCountries(lang) ==
    [i \in 1..Len(countryNames) |->
        [original |-> countryNames[i],
         translated |-> translateCountry(lang, countryNames[i])]]

\* The texts typed into the search box: "", " ", "a", "an", "An ", "UK",
\* "us", "Fra", "sp".  None is longer than 3 characters.
Queries ==
    { <<>>, <<32>>, <<97>>, <<97, 110>>, <<65, 110, 32>>, <<85, 75>>,
      <<117, 115>>, <<70, 114, 97>>, <<115, 112>> }

\* query.trim() is empty
isBlank(query) == \A i \in 1..Len(query) : query[i] \in {9, 10, 11, 12, 13, 32, 160}

\* text.indexOf(pattern), counted from 0; -1 when pattern does not occur
indexOf(text, pattern) ==
    LET at(i) == SubSeq(text, i, i + Len(pattern) - 1) = pattern
        starts == {i \in 1..(Len(text) - Len(pattern) + 1) : at(i)}
    IN  IF starts = {} THEN -1
        ELSE (CHOOSE i \in starts : \A j \in starts : i <= j) - 1

\* text.match(/[^ ]+/g).length
numTokens(text) ==
    Cardinality({i \in 1..Len(text) :
                    text[i] # 32 /\ (i = 1 \/ text[i - 1] = 32)})

\* Fuse's bitap search of a pattern of 1 to 3 characters in a field, both
\* in lower case.  With threshold 0.3 one error costs 1/len > 0.3, so the
\* pattern has to occur as it is, at an index p with p / distance <= 0.3;
\* the match has to mark minMatchCharLength neighbouring characters.
bitapMatch(text, pattern) ==
    \/ text = pattern
    \/ /\ indexOf(text, pattern) >= 0
       /\ indexOf(text, pattern) * 100 <= threshold * distance
       /\ \/ Len(pattern) >= minMatchCharLength
          \/ \E i \in 1..(Len(text) - 1) :
                \A k \in 0..(minMatchCharLength - 1) :
                    i + k <= Len(text) /\ text[i + k] = pattern[1]

\* max(0.001, p / distance) ^ norm in millionths, norm = 1 / sqrt(numTokens)
\* rounded to 3 decimals, for p = 0..30 and 1 or 2 tokens
fieldScore ==
    << <<1000, 10000, 20000, 30000, 40000, 50000, 60000, 70000, 80000, 90000, 100000, 110000, 120000, 130000, 140000, 150000, 160000, 170000, 180000, 190000, 200000, 210000, 220000, 230000, 240000, 250000, 260000, 270000, 280000, 290000, 300000>>,
       <<7568, 38547, 62925, 83815, 102720, 120274, 136821, 152575, 167681, 182242, 196336, 210021, 223347, 236351, 249064, 261514, 273723, 285711, 297493, 309085, 320500, 331748, 342841, 353786, 364593, 375269, 385821, 396254, 406575, 416788, 426898>> >>

\* the score of a matching field: 0 (Number.EPSILON) when it equals the pattern
computeScore(text, pattern) ==
    IF text = pattern THEN 0
    ELSE fieldScore[numTokens(text)][indexOf(text, pattern) + 1]

\* fuse.search(query, {limit}): the matching records by score, then by
\* index, cut to limit; results.map(r => r.item.original)
fuseSearch(lang, query) ==
    LET records == translatedCountries(lang)
        pattern == toLowerCase(query)
        field == [i \in 1..Len(records) |-> toLowerCase(records[i].translated)]
        hits == {i \in 1..Len(records) : bitapMatch(field[i], pattern)}
        score == [i \in hits |-> computeScore(field[i], pattern)]
        before(i, j) == score[i] < score[j] \/ (score[i] = score[j] /\ i < j)
        rank == [i \in hits |-> Cardinality({j \in hits : before(j, i)}) + 1]
        sorted == [k \in 1..Cardinality(hits) |->
                      records[CHOOSE i \in hits : rank[i] = k].original]
    IN  SubSeq(sorted, 1, IF Len(sorted) < limit THEN Len(sorted) ELSE limit)

\* The Fuse instance of each language (useMemo), as its answers to Queries.
fuse ==
    {<<lang, query, fuseSearch(lang, query)>> :
        lang \in languages, query \in {q \in Queries : ~isBlank(q)}}

searchCountries(lang, query) ==
    IF isBlank(query) THEN <<>>
    ELSE (CHOOSE r \in fuse : r[1] = lang /\ r[2] = query)[3]

\* alreadyGuessed={[...guesses.map(g => g.countryName), currentCountry.name]}
alreadyGuessedProp(gs) ==
    [i \in 1..(Len(gs.guesses) + 1) |->
        IF i <= Len(gs.guesses) THEN gs.guesses[i].countryName
        ELSE gs.currentCountry.name]

\* CountrySearch mounts
mountCountrySearch ==
    [mounted |-> TRUE, query |-> <<>>, suggestions |-> <<>>,
     selectedIndex |-> -1, isOpen |-> FALSE]

\* updateSuggestions without the alreadyGuessed filter
updateSuggestions_Unfiltered(lang, exclusions, value) ==
    IF ~isBlank(value)
    THEN LET results == searchCountries(lang, value)
         IN  [mounted |-> TRUE, query |-> value, suggestions |-> results,
              selectedIndex |-> -1, isOpen |-> Len(results) > 0]
    ELSE [mounted |-> TRUE, query |-> value, suggestions |-> <<>>,
          selectedIndex |-> -1, isOpen |-> FALSE]

\* updateSuggestions(value), with the alreadyGuessed prop of the render
updateSuggestions(lang, exclusions, value) ==
    IF ~isBlank(value)
    THEN LET keep(country) ==
                 ~\E i \in 1..Len(exclusions) :
                     toLowerCase(exclusions[i]) = toLowerCase(country)
             results == SelectSeq(searchCountries(lang, value), keep)
         IN  [mounted |-> TRUE, query |-> value, suggestions |-> results,
              selectedIndex |-> -1, isOpen |-> Len(results) > 0]
    ELSE [mounted |-> TRUE, query |-> value, suggestions |-> <<>>,
          selectedIndex |-> -1, isOpen |-> FALSE]

\* The start-game buttons of the start screen and of the game-over screen;
\* the game screen mounts CountrySearch.
SearchStartGame ==
    /\ phase(gameState) # "InProgress"
    /\ \E country \in getRandomCountry :
          Dispatch("startGame", NoArg, startGame(country))
    /\ search' = mountCountrySearch
    /\ UNCHANGED <<language, map>>

\* handleInputChange
TypeQuery ==
    /\ search.mounted
    /\ \E value \in Queries :
          search' = updateSuggestions(language, alreadyGuessedProp(gameState), value)
    /\ UNCHANGED <<gameState, captured, last, language, map>>

\* selectCountry(country): onSelect = makeGuess, then the box is cleared; the
\* game-over screen has no CountrySearch
selectCountry(country) ==
    /\ Len(gameState.guesses) < MaxGuesses
    /\ Dispatch("makeGuess", country, makeGuess(captured, country))
    /\ search' = IF phase(gameState') = "InProgress"
                 THEN mountCountrySearch ELSE Unmounted
    /\ UNCHANGED <<language, map>>

\* onClick of a suggestion item
ClickSuggestion ==
    /\ search.mounted /\ search.isOpen
    /\ \E index \in 1..Len(search.suggestions) :
          selectCountry(search.suggestions[index])

\* handleKeyDown, e.key = 'ArrowDown'
KeyArrowDown ==
    /\ search.mounted /\ search.isOpen
    /\ search' = [search EXCEPT !.selectedIndex =
                     IF @ < Len(search.suggestions) - 1 THEN @ + 1 ELSE @]
    /\ UNCHANGED <<gameState, captured, last, language, map>>

\* handleKeyDown, e.key = 'ArrowUp'
KeyArrowUp ==
    /\ search.mounted /\ search.isOpen
    /\ search' = [search EXCEPT !.selectedIndex = IF @ > 0 THEN @ - 1 ELSE -1]
    /\ UNCHANGED <<gameState, captured, last, language, map>>

\* handleKeyDown, e.key = 'Enter' (selectedIndex counts from 0)
KeyEnter ==
    /\ search.mounted /\ search.isOpen
    /\ Len(search.suggestions) > 0
    /\ IF search.selectedIndex >= 0 /\ search.selectedIndex < Len(search.suggestions)
       THEN selectCountry(search.suggestions[search.selectedIndex + 1])
       ELSE selectCountry(search.suggestions[1])

\* handleKeyDown, e.key = 'Escape', and handleClickOutside
CloseSuggestions ==
    /\ search.mounted /\ search.isOpen
    /\ search' = [search EXCEPT !.isOpen = FALSE, !.selectedIndex = -1]
    /\ UNCHANGED <<gameState, captured, last, language, map>>

\* The back-to-menu buttons of the game screen and of the game-over screen.
SearchResetGame ==
    /\ phase(gameState) # "NoGame"
    /\ Dispatch("resetGame", NoArg, resetGame)
    /\ search' = Unmounted
    /\ UNCHANGED <<language, map>>

NextSearch ==
    \/ SearchStartGame
    \/ TypeQuery
    \/ ClickSuggestion
    \/ KeyArrowDown
    \/ KeyArrowUp
    \/ KeyEnter
    \/ CloseSuggestions
    \/ SearchResetGame
    \/ ChangeLanguage

SpecSearch == Init /\ [][NextSearch]_vars

\* name is one of the names of the catalog
IsCanonical(name) == \E i \in 1..Len(countryNames) : countryNames[i] = name

\* C19: whatever was typed and whatever the round, the suggestion list has at
\* most 8 entries, each a canonical country name, none the target and none a
\* country of the guess log (compared case-insensitively); after an empty or
\* whitespace-only query the list is empty.
C19_SuggestionsFiltered ==
    search.mounted =>
        /\ InProgress
        /\ Len(search.suggestions) <= 8
        /\ \A k \in 1..Len(search.suggestions) :
              /\ IsCanonical(search.suggestions[k])
              /\ ~SameName(search.suggestions[k], gameState.currentCountry.name)
              /\ ~InLog(gameState, search.suggestions[k])
        /\ (\A i \in 1..Len(search.query) : search.query[i] = 32)
              => search.suggestions = <<>>

\* "an" typed on Andorra after Canada was guessed: Germany has "an" and is
\* not among the first 8, and of these Andorra and Canada are left out
C19_Witness ==
    /\ search.mounted
    /\ search.query = <<97, 110>>
    /\ language = "en"
    /\ gameState.currentCountry.name = Andorra
    /\ Len(gameState.guesses) = 1
    /\ gameState.guesses[1].countryName = Canada
    /\ Len(search.suggestions) = 6
    /\ \A k \in 1..Len(search.suggestions) : search.suggestions[k] # Germany

\* The abbreviations the players know, as <<abbreviation, country>>.
knownAliases == { <<<<85, 75>>, UnitedKingdom>>, <<<<85, 83>>, UnitedStates>> }

\* C20: when the query equals an alias or abbreviation of a country, upper or
\* lower case alike, and the country is neither the target nor guessed, the
\* list has that country, before every other entry.
C20_AliasFirst ==
    search.mounted =>
        \A a \in knownAliases :
            (/\ SameName(search.query, a[1])
             /\ ~SameName(a[2], gameState.currentCountry.name)
             /\ ~InLog(gameState, a[2]))
            => /\ Len(search.suggestions) > 0
               /\ search.suggestions[1] = a[2]

(***************************************************************************)
(* getRandomCountry: the seeded generator                                  *)
(***************************************************************************)

\* Number of clock ticks (milliseconds) after ClockStart that are followed.
NumTicks == 150

\* A natural number as its binary digits, lowest first, without leading zeros:
\* the numbers of seededRandom do not fit 32-bit integers.
normalize(x) ==
    LET ones == {i \in 1..Len(x) : x[i] = 1}
    IN  IF ones = {} THEN <<>>
        ELSE SubSeq(x, 1, CHOOSE i \in ones : \A j \in ones : j <= i)

\* n < 2^31 in binary
toBits(n) == normalize([i \in 1..31 |-> (n \div 2^(i - 1)) % 2] \o <<>>)

\* the number x < 2^31 stands for
fromBits(x) ==
    LET value[i \in 0..Len(x)] ==
            IF i = 0 THEN 0 ELSE value[i - 1] + x[i] * 2^(i - 1)
    IN  value[Len(x)]

\* The arithmetic goes by groups of 14 binary digits, so that the products
\* and sums of groups stay below 2^31 (numbers of up to 7 groups).  A
\* function is made a sequence by \o <<>>.
Base == 2^14

\* the groups of x, lowest first
groupsOf(x) ==
    [j \in 1..((Len(x) + 13) \div 14) |->
        fromBits(SubSeq(x, 14 * (j - 1) + 1,
                        IF 14 * j < Len(x) THEN 14 * j ELSE Len(x)))] \o <<>>

\* group j, also beyond the length
group(g, j) == IF j \in 1..Len(g) THEN g[j] ELSE 0

\* the binary digits of the number with column sums c[1..width], carried upwards
carried(c, width) ==
    LET total[k \in 0..width] ==
            IF k = 0 THEN 0 ELSE c[k] + (total[k - 1] \div Base)
        groups == [k \in 1..width |-> total[k] % Base] \o <<>>
    IN  normalize([i \in 1..(14 * width) |->
            (groups[((i - 1) \div 14) + 1] \div 2^((i - 1) % 14)) % 2] \o <<>>)

\* x + y
add(x, y) ==
    LET gx == groupsOf(x)
        gy == groupsOf(y)
        width == (IF Len(gx) > Len(gy) THEN Len(gx) ELSE Len(gy)) + 1
    IN  carried([k \in 1..width |-> group(gx, k) + group(gy, k)] \o <<>>, width)

\* x * y, y below 2^42: the column sums of the long multiplication
mul(x, y) ==
    LET gx == groupsOf(x)
        gy == groupsOf(y)
        width == Len(gx) + Len(gy) + 1
        column(k) ==
            group(gx, k) * group(gy, 1) + group(gx, k - 1) * group(gy, 2)
                + group(gx, k - 2) * group(gy, 3)
    IN  carried([k \in 1..width |-> column(k)] \o <<>>, width)

\* x <= y
lessEq(x, y) ==
    \/ Len(x) < Len(y)
    \/ /\ Len(x) = Len(y)
       /\ \/ x = y
          \/ \E i \in 1..Len(x) :
                /\ x[i] < y[i]
                /\ \A j \in (i + 1)..Len(x) : x[j] = y[j]

\* a result kept with all its digits, as integer arithmetic would keep it
toDouble_Exact(x) == x

\* The result of a Number operation: the nearest double, which has 53
\* significant binary digits; halfway cases go to the even neighbour.
toDouble(x) ==
    IF Len(x) <= 53 THEN x
    ELSE LET q == Len(x) - 53
             kept == SubSeq(x, q + 1, Len(x))
             low == SubSeq(x, 1, q)
             above == low[q] = 1 /\ \E i \in 1..(q - 1) : low[i] = 1
             tie == low[q] = 1 /\ \A i \in 1..(q - 1) : low[i] = 0
             up == above \/ (tie /\ kept[1] = 1)
         IN  [i \in 1..q |-> 0] \o (IF up THEN add(kept, <<1>>) ELSE kept)

\* x & 0x7fffffff, x not negative: the lowest 31 digits
and0x7fffffff(x) ==
    fromBits(SubSeq(x, 1, IF Len(x) < 31 THEN Len(x) ELSE 31))

\* seededRandom(seed)(): the new seed, (seed * 1103515245 + 12345) & 0x7fffffff
seededRandom(seed) ==
    and0x7fffffff(
        toDouble(add(toDouble(mul(seed, toBits(1103515245))), toBits(12345))))

\* Math.floor(random() * n) with random() = seed / 0x7fffffff.  The quotient
\* is an integer only for seed = 0 and seed = 0x7fffffff (2^31 - 1 is prime
\* and n is small), so the rounding of the division and of the product does
\* not change the floor.
randomIndex(seed, n) ==
    LET product == mul(toBits(seed), toBits(n))
        reached == {k \in 0..n : lessEq(mul(toBits(k), toBits(2147483647)), product)}
    IN  CHOOSE k \in reached : \A j \in reached : j <= k

\* validCountries[index] of an index that is not in the array
Undefined == [isUndefined |-> TRUE]

\* 2025-11-03T00:00:00Z in milliseconds, 1762128000000, as 26887939 * 2^16 + 37632
ClockStart == add(toBits(37632), [i \in 1..16 |-> 0] \o toBits(26887939))

\* The seed at which (seed * 1103515245 + 12345) mod 2^31 is 0x7fffffff.
AllOnesSeed == toBits(230538014)

\* The largest seed whose product with 1103515245 is below 2^53.
LastExactSeed == toBits(8162278)

\* Date.now() when startGame runs: the ticks after ClockStart, and clocks that
\* stand near 1970: the first milliseconds, the last seeds multiplied without
\* rounding and the seeds around AllOnesSeed.
ClockValues ==
    {add(ClockStart, toBits(i)) : i \in 0..NumTicks}
        \cup {toBits(i) : i \in 0..3}
        \cup {add(LastExactSeed, toBits(i)) : i \in 0..2}
        \cup {add(AllOnesSeed, toBits(i)) : i \in 0..2}
        \cup {add(AllOnesSeed, [i \in 1..31 |-> 0] \o toBits(k)) : k \in 1..3}

\* getRandomCountry() at each clock value: the generator's output, the index
\* and validCountries[index]
getRandomCountryAt ==
    {LET seed == seededRandom(now)
         index == randomIndex(seed, Len(validCountries))
     IN  [now |-> now, seed |-> seed, index |-> index,
          country |-> IF index + 1 \in DOMAIN validCountries
                      THEN validCountries[index + 1] ELSE Undefined]
     : now \in ClockValues}

\* startGame(), with the clock value and the generator's output kept in last
SeededStartGame ==
    /\ \E draw \in getRandomCountryAt :
          LET calls == startGame(draw.country)
          IN  /\ gameState' = calls[Len(calls)]
              /\ captured' = gameState'
              /\ last' = [op |-> "startGame", arg |-> NoArg,
                          from |-> phase(gameState),
                          changed |-> gameState' # gameState,
                          now |-> draw.now,
                          seed |-> draw.seed,
                          index |-> draw.index]
    /\ UNCHANGED ui

NextSeed == SeededStartGame

SpecSeed == Init /\ [][NextSeed]_vars

\* C24: whatever the clock gave as the seed, the new seed is not 0x7fffffff
\* (r is not 1), the index is one of 0..n-1 for the n countries with at least
\* 2 borders, and the round has a country of the catalog as currentCountry.
C24_IndexInRange ==
    HasRound =>
        /\ last.seed \in 0..2147483646
        /\ last.index \in 0..(Len(validCountries) - 1)
        /\ gameState.currentCountry # Undefined
        /\ \E i \in 1..Len(validCountries) :
              gameState.currentCountry = validCountries[i]

\* a round started at the clock value whose exact product ends in 31 ones
C24_Witness ==
    /\ HasRound
    /\ last.op = "startGame"
    /\ last.now = AllOnesSeed
    /\ last.seed # 2147483647
    /\ last.index < Len(validCountries)

(***************************************************************************)
(* CountryMap: projection, framing and zoom                                *)
(*                                                                         *)
(* Longitudes and latitudes are whole degrees; a point is <<lon, lat>>.    *)
(* A projected coordinate is counted in ninths of an SVG unit, so that     *)
(* (lon + 180) * (800 / 360) is the integer (lon + 180) * 20.  The         *)
(* rounding of the doubles is left out: the numbers stand for the exact    *)
(* values of the expressions.                                              *)
(***************************************************************************)

abs(n) == IF n < 0 THEN -n ELSE n

min(S) == CHOOSE x \in S : \A y \in S : x <= y

max(S) == CHOOSE x \in S : \A y \in S : y <= x

\* the concatenation of a sequence of sequences (flattening of nested arrays)
flat(seqs) ==
    LET upTo[k \in 0..Len(seqs)] ==
            IF k = 0 THEN <<>> ELSE upTo[k - 1] \o seqs[k]
    IN  upTo[Len(seqs)]

\* isMainlandPolygon: the centroid of the ring within lon -10..15 and
\* lat 40..52, for France only.  sum / length >= bound is compared as
\* sum >= bound * length; an empty ring has the centroid NaN.
isMainlandPolygon(countryName, coords) ==
    IF countryName # France THEN TRUE
    ELSE LET n == Len(coords)
             total[i \in 0..n] ==
                 IF i = 0 THEN <<0, 0>>
                 ELSE <<total[i - 1][1] + coords[i][1],
                        total[i - 1][2] + coords[i][2]>>
         IN  /\ n > 0
             /\ total[n][1] >= -10 * n
             /\ total[n][1] <= 15 * n
             /\ total[n][2] >= 40 * n
             /\ total[n][2] <= 52 * n

\* filterFeatureGeometry: for France, a Polygon off the mainland gets the
\* coordinates [], a MultiPolygon keeps the polygons whose first ring is
\* on the mainland
filterFeatureGeometry(feature, countryName) ==
    IF countryName # France THEN feature
    ELSE IF feature.geometry.type = "Polygon"
    THEN LET coords == feature.geometry.coordinates
         IN  IF Len(coords) > 0 /\ isMainlandPolygon(countryName, coords[1])
             THEN feature
             ELSE [feature EXCEPT !.geometry.coordinates = <<>>]
    ELSE LET coords == feature.geometry.coordinates
             filteredCoords ==
                 SelectSeq(coords,
                           LAMBDA polygon :
                               IF Len(polygon) > 0
                               THEN isMainlandPolygon(countryName, polygon[1])
                               ELSE FALSE)
         IN  [feature EXCEPT !.geometry.coordinates = filteredCoords]

\* projectCoordinate: <<x, y>> in ninths
projectCoordinate(lon, lat, lonOffset) ==
    LET adjustedLon == lon + lonOffset
    IN  <<(adjustedLon + 180) * 20, (90 - lat) * 20>>

\* crossesAntimeridian: some point is more than 180 degrees of longitude
\* away from the point before it
crossesAntimeridian(coords) ==
    \E i \in 2..Len(coords) : abs(coords[i][1] - coords[i - 1][1]) > 180

\* coordsToPath projecting every point without a shift
coordsToPath_Unshifted(coords) ==
    [i \in 1..Len(coords) |-> projectCoordinate(coords[i][1], coords[i][2], 0)]

\* coordsToPath: the points of 'M x,y L x,y ... Z' in order ('' is <<>>)
coordsToPath(coords) ==
    LET crosses == crossesAntimeridian(coords)
    IN  [i \in 1..Len(coords) |->
            IF crosses /\ coords[i][1] < 0
            THEN projectCoordinate(coords[i][1], coords[i][2], 360)
            ELSE projectCoordinate(coords[i][1], coords[i][2], 0)]

\* the polygons of a geometry, as calculateBounds takes them
polygonsOf(geometry) ==
    IF geometry.type = "Polygon" THEN <<geometry.coordinates>>
    ELSE geometry.coordinates

\* geometryToPath: the paths of the rings, in order
geometryToPath(geometry) ==
    IF geometry.type = "Polygon"
    THEN [r \in 1..Len(geometry.coordinates) |->
             coordsToPath(geometry.coordinates[r])]
    ELSE flat([p \in 1..Len(geometry.coordinates) |->
             [r \in 1..Len(geometry.coordinates[p]) |->
                 coordsToPath(geometry.coordinates[p][r])]])

\* calculateBounds: hasAntimeridianCrossing is set by the first ring that
\* crosses and stays set for the rings and features after it
calculateBounds(features) ==
    LET rings == flat([f \in 1..Len(features) |->
                          flat(polygonsOf(features[f].geometry))])
        hasAntimeridianCrossing(k) ==
            \E j \in 1..k : crossesAntimeridian(rings[j])
        adjustedLon(k, i) ==
            IF hasAntimeridianCrossing(k) /\ rings[k][i][1] < 0
            THEN rings[k][i][1] + 360 ELSE rings[k][i][1]
        points == UNION {{<<k, i>> : i \in 1..Len(rings[k])} :
                            k \in 1..Len(rings)}
        minLon == min({180} \cup {adjustedLon(ki[1], ki[2]) : ki \in points})
        maxLon == max({-180} \cup {adjustedLon(ki[1], ki[2]) : ki \in points})
        minLat == min({90} \cup {rings[ki[1]][ki[2]][2] : ki \in points})
        maxLat == max({-90} \cup {rings[ki[1]][ki[2]][2] : ki \in points})
        lowLeft == projectCoordinate(minLon, minLat, 0)
        upRight == projectCoordinate(maxLon, maxLat, 0)
    IN  [minX |-> lowLeft[1], minY |-> upRight[2],
         maxX |-> upRight[1], maxY |-> lowLeft[2]]

\* nameMapping[name] || name (an excerpt of the table; the countries of the
\* catalog are not in it)
UnitedStatesOfAmerica == <<85, 110, 105, 116, 101, 100, 32, 83, 116, 97, 116, 101, 115, 32, 111, 102, 32, 65, 109, 101, 114, 105, 99, 97>>

nameMapping(name) ==
    IF name = UnitedStates THEN UnitedStatesOfAmerica ELSE name

\* geoData.features.find(f => featureName === topoName ||
\*     featureName.toLowerCase() === topoName.toLowerCase())
findFeature(geoData, name) ==
    LET topoName == nameMapping(name)
        found == {i \in 1..Len(geoData.features) :
                     \/ geoData.features[i].name = topoName
                     \/ toLowerCase(geoData.features[i].name) = toLowerCase(topoName)}
    IN  IF found = {} THEN Undefined ELSE geoData.features[min(found)]

\* the props App passes to CountryMap on the game-over screen and on the
\* game screen
mapProps(gs) ==
    IF gs.gameOver
    THEN [targetCountry |-> gs.currentCountry.name,
          guessedBorders |-> gs.correctGuesses,
          allBorders |-> gs.currentCountry.borders,
          gameOver |-> TRUE, showOutlines |-> FALSE, wrongGuesses |-> <<>>]
    ELSE [targetCountry |-> gs.currentCountry.name,
          guessedBorders |-> gs.correctGuesses,
          allBorders |-> gs.currentCountry.borders,
          gameOver |-> FALSE, showOutlines |-> gs.showOutlines,
          wrongGuesses |->
              LET wrong == SelectSeq(gs.guesses, LAMBDA g : ~g.isCorrect)
              IN  [i \in 1..Len(wrong) |-> wrong[i].countryName]]

\* [...new Set(names)]: the first occurrence of each name, in order
newSet(names) ==
    LET kept[k \in 0..Len(names)] ==
            IF k = 0 THEN <<>>
            ELSE IF \E j \in 1..(k - 1) : names[j] = names[k] THEN kept[k - 1]
            ELSE Append(kept[k - 1], names[k])
    IN  kept[Len(names)]

includes(names, name) == \E i \in 1..Len(names) : names[i] = name

countriesToShow(props) ==
    IF props.gameOver
    THEN newSet(<<props.targetCountry>> \o props.allBorders)
    ELSE IF props.showOutlines
    THEN newSet(<<props.targetCountry>> \o props.allBorders \o props.wrongGuesses)
    ELSE newSet(<<props.targetCountry>> \o props.guessedBorders \o props.wrongGuesses)

\* '0 0 800 400', in 720ths of a unit
defaultViewBox == <<0, 0, 800 * 720, 400 * 720>>

\* viewBox: 'x y width height' as four numbers in 720ths of a unit, for the
\* bounds in ninths and the zoomLevel in quarters:
\*   centerX - finalWidth / 2 = (40 * (2 * minX + width) - 11 * width * zoomLevel) / 720
\*   finalWidth = zoomedWidth * 1.1 = 22 * width * zoomLevel / 720
viewBox(geoData, targetCountry, zoomLevel) ==
    IF geoData = Null THEN defaultViewBox
    ELSE LET targetFeature == findFeature(geoData, targetCountry)
         IN  IF targetFeature = Undefined THEN defaultViewBox
             ELSE LET filteredFeature == filterFeatureGeometry(targetFeature, targetCountry)
                      bounds == calculateBounds(<<filteredFeature>>)
                      width == bounds.maxX - bounds.minX
                      height == bounds.maxY - bounds.minY
                  IN  << 40 * (2 * bounds.minX + width) - 11 * width * zoomLevel,
                         40 * (2 * bounds.minY + height) - 11 * height * zoomLevel,
                         22 * width * zoomLevel,
                         22 * height * zoomLevel >>

\* features: the displayed countries that the dataset has, each with its
\* filtered geometry and its flags
features(geoData, props) ==
    IF geoData = Null THEN <<>>
    ELSE LET names == countriesToShow(props)
             known == SelectSeq(names, LAMBDA name : findFeature(geoData, name) # Undefined)
         IN  [i \in 1..Len(known) |->
                LET name == known[i]
                    isTarget == name = props.targetCountry
                    isGuessed == includes(props.guessedBorders, name)
                    isBorder == includes(props.allBorders, name)
                IN  [feature |-> filterFeatureGeometry(findFeature(geoData, name), name),
                     name |-> name,
                     isTarget |-> isTarget,
                     isGuessed |-> isGuessed,
                     isMissed |-> props.gameOver /\ isBorder /\ ~isGuessed /\ ~isTarget,
                     isOutlineHint |-> props.showOutlines /\ ~props.gameOver /\ isBorder
                                           /\ ~isGuessed /\ ~isTarget,
                     isWrong |-> ~props.gameOver /\ includes(props.wrongGuesses, name)]]

\* setZoomLevel(prev => Math.max(0.5, prev / 2)), in quarters
handleZoomIn(prev) == max({2, prev \div 2})

\* setZoomLevel(prev => Math.min(8, prev * 2)), in quarters
handleZoomOut(prev) == min({32, prev * 2})

\* a click on the + button: disabled={zoomLevel <= 0.5}, and a disabled
\* button calls no handler
clickZoomIn(m) ==
    IF m.zoomLevel <= 2 THEN m
    ELSE [m EXCEPT !.zoomLevel = handleZoomIn(m.zoomLevel)]

\* a click on the - button: disabled={zoomLevel >= 8}
clickZoomOut(m) ==
    IF m.zoomLevel >= 32 THEN m
    ELSE [m EXCEPT !.zoomLevel = handleZoomOut(m.zoomLevel)]

\* The map data.  A ring is closed, as the rings of GeoJSON are.
closed(points) == Append(points, points[1])

\* the ring of the antimeridian test
ExampleRing == <<<<179, 10>>, <<-179, 10>>, <<-179, -10>>, <<179, -10>>>>

RingEx == closed(ExampleRing)
RingWest == closed(<<<<-20, 0>>, <<-10, 0>>, <<-10, 5>>>>)
RingEast == closed(<<<<10, 0>>, <<20, 0>>, <<20, 5>>>>)
RingMainland == closed(<<<<0, 45>>, <<5, 45>>, <<5, 50>>>>)
RingOverseas == closed(<<<<-55, 3>>, <<-52, 3>>, <<-52, 5>>>>)
RingIberia == closed(<<<<-9, 36>>, <<3, 36>>, <<3, 43>>>>)
RingHonshu == closed(<<<<130, 30>>, <<140, 30>>, <<140, 40>>>>)

\* a GeoJSONFeature: properties.name and the geometry
Feature(name, type, coordinates) ==
    [name |-> name, geometry |-> [type |-> type, coordinates |-> coordinates]]

\* The target of the Andorra rounds takes every shape of one or two pieces
\* out of three rings, or is missing from the data (as small countries are
\* at the 110m resolution).
AndorraRings == {RingEx, RingWest, RingEast}

AndorraFeatures ==
    {<<>>}
        \cup {<<Feature(Andorra, "Polygon", <<r>>)>> : r \in AndorraRings}
        \cup {<<Feature(Andorra, "MultiPolygon", <<<<r[1]>>, <<r[2]>>>>)>> :
                 r \in {q \in AndorraRings \X AndorraRings : q[1] # q[2]}}

\* France with an overseas polygon
FranceFeature ==
    Feature(France, "MultiPolygon", <<<<RingMainland>>, <<RingOverseas>>>>)

JapanFeature == Feature(Japan, "Polygon", <<RingHonshu>>)

SpainFeatures ==
    {Feature(Spain, "Polygon", <<RingIberia>>),
     Feature(Spain, "MultiPolygon", <<<<RingEx>>, <<RingIberia>>>>)}

\* the values of geoData
datasets ==
    {[features |-> a \o <<FranceFeature, JapanFeature, sp>>] :
        a \in AndorraFeatures, sp \in SpainFeatures}

\* The texts typed on the game screen.
GeoTexts == {France, Spain, Japan, toLowerCase(Spain)}

\* A round on the game screen with the map data loaded.
InitGeo ==
    /\ \E country \in getRandomCountry : gameState = newGame(country)
    /\ captured = gameState
    /\ last = [op |-> "init", arg |-> NoArg, from |-> "NoGame", changed |-> FALSE]
    /\ language = "en"
    /\ search = Unmounted
    /\ \E geoJSON \in datasets :
          map = [mountCountryMap({}, {}) EXCEPT !.geoData = geoJSON,
                                                !.loading = FALSE,
                                                !.pc = "loaded"]

\* CountryMap returns the svg with the zoom buttons
MapShown ==
    /\ gameState # Null
    /\ map.mounted /\ ~map.loading /\ map.error = "null"
    /\ Len(features(map.geoData, mapProps(gameState))) > 0

GeoMakeGuess ==
    /\ \E countryName \in GeoTexts :
          Dispatch("makeGuess", countryName, makeGuess(captured, countryName))
    /\ UNCHANGED ui

GeoShowOutlinesHint ==
    /\ Dispatch("showOutlinesHint", NoArg, showOutlinesHint(captured))
    /\ UNCHANGED ui

\* a click on the + button
GeoZoomIn ==
    /\ MapShown
    /\ map' = clickZoomIn(map)
    /\ last' = [op |-> "handleZoomIn", arg |-> NoArg, from |-> phase(gameState),
                changed |-> map' # map, zoom |-> map.zoomLevel]
    /\ UNCHANGED <<gameState, captured, language, search>>

\* a click on the - button
GeoZoomOut ==
    /\ MapShown
    /\ map' = clickZoomOut(map)
    /\ last' = [op |-> "handleZoomOut", arg |-> NoArg, from |-> phase(gameState),
                changed |-> map' # map, zoom |-> map.zoomLevel]
    /\ UNCHANGED <<gameState, captured, language, search>>

\* Play again on the game-over screen: startGame, and the CountryMap stays
\* on screen with the new target
GeoStartGame ==
    /\ gameState # Null /\ gameState.gameOver
    /\ \E country \in getRandomCountry :
          LET calls == startGame(country)
          IN  gameState' = calls[Len(calls)]
    /\ captured' = gameState'
    /\ map' = resetZoom(map, gameState, gameState')
    /\ last' = [op |-> "startGame", arg |-> NoArg, from |-> phase(gameState),
                changed |-> gameState' # gameState, zoom |-> map.zoomLevel,
                target |-> gameState.currentCountry.name]
    /\ UNCHANGED <<language, search>>

NextGeo ==
    \/ GeoMakeGuess
    \/ GeoShowOutlinesHint
    \/ GeoZoomIn
    \/ GeoZoomOut
    \/ GeoStartGame

SpecGeo == InitGeo /\ [][NextGeo]_vars

\* the rings of a geometry, in the order of the file
ringsOf(geometry) == flat(polygonsOf(geometry))

\* the rings CountryMap draws in the current state
DrawnRings ==
    IF ~MapShown THEN {}
    ELSE LET shown == features(map.geoData, mapProps(gameState))
         IN  UNION {{ringsOf(shown[f].feature.geometry)[r] :
                        r \in 1..Len(ringsOf(shown[f].feature.geometry))} :
                    f \in 1..Len(shown)}

\* two consecutive points of the ring are more than 180 degrees of longitude
\* apart
HasJump(ring) ==
    \E i \in 1..(Len(ring) - 1) :
        \/ ring[i + 1][1] - ring[i][1] > 180
        \/ ring[i][1] - ring[i + 1][1] > 180

\* the x values of a ring's path
pathXs(ring) == {coordsToPath(ring)[i][1] : i \in 1..Len(ring)}

\* C21: the path of a ring (of every ring on the map, and of the ring of the
\* antimeridian test) has one point per point of the ring; in a ring with a
\* jump of more than 180 degrees between consecutive points the points of
\* negative longitude are projected with longitude + 360 and the others
\* unshifted, in a ring without such a jump no point is shifted.  The x values
\* of the test ring span 2 degrees, 2 * 800 / 360 units (40 ninths).
C21_ShiftOnJump ==
    /\ \A ring \in DrawnRings \cup {ExampleRing} :
          /\ Len(coordsToPath(ring)) = Len(ring)
          /\ \A i \in 1..Len(ring) :
                LET lon == ring[i][1]
                    lat == ring[i][2]
                    shift == IF HasJump(ring) /\ lon < 0 THEN 360 ELSE 0
                IN  coordsToPath(ring)[i] =
                        <<(lon + shift + 180) * 20, (90 - lat) * 20>>
    /\ max(pathXs(ExampleRing)) - min(pathXs(ExampleRing)) = 2 * 20

\* the map shows a ring that crosses the antimeridian and a ring of negative
\* longitudes that does not
C21_Witness ==
    /\ \E ring \in DrawnRings :
          HasJump(ring) /\ \E i \in 1..Len(ring) : ring[i][1] < 0
    /\ \E ring \in DrawnRings :
          ~HasJump(ring) /\ \E i \in 1..Len(ring) : ring[i][1] < 0

\* zoomLevel 0.5, 1, 2, 4, 8 in quarters
ZoomLevels == {2, 4, 8, 16, 32}

\* C23: zoomLevel is one of 0.5, 1, 2, 4, 8 and starts at 2; a click on + halves
\* it and a click on - doubles it, except at 0.5 and at 8, where the click
\* leaves it as it is; a round with another target country sets it to 2, and
\* nothing else changes it.
C23_ZoomLevels ==
    [][ /\ map.zoomLevel \in ZoomLevels
        /\ map'.zoomLevel \in ZoomLevels
        /\ last.op = "init" => map.zoomLevel = 8
        /\ IF last'.op = "handleZoomIn"
           THEN map'.zoomLevel = IF map.zoomLevel = 2 THEN 2
                                 ELSE map.zoomLevel \div 2
           ELSE IF last'.op = "handleZoomOut"
           THEN map'.zoomLevel = IF map.zoomLevel = 32 THEN 32
                                 ELSE map.zoomLevel * 2
           ELSE IF gameState'.currentCountry.name # gameState.currentCountry.name
           THEN map'.zoomLevel = 8
           ELSE map'.zoomLevel = map.zoomLevel ]_vars

\* a round with another target country has started on a map zoomed out to 8
C23_Witness ==
    /\ last.op = "startGame"
    /\ last.target # gameState.currentCountry.name
    /\ last.zoom = 32
    /\ map.zoomLevel = 8

reverse(seq) == [i \in 1..Len(seq) |-> seq[Len(seq) + 1 - i]]

\* a feature list in the opposite order: the features, and the polygons (or
\* the rings of a Polygon) of each
reversed(list) ==
    reverse([f \in 1..Len(list) |->
                [list[f] EXCEPT !.geometry.coordinates = reverse(@)]])

\* the points geometryToPath draws for the features of a list
drawnPoints(list) ==
    UNION {UNION {{geometryToPath(list[f].geometry)[r][i] :
                      i \in 1..Len(geometryToPath(list[f].geometry)[r])} :
                  r \in 1..Len(geometryToPath(list[f].geometry))} :
           f \in 1..Len(list)}

\* the filtered features on the map, in the order of display
shownFeatures ==
    LET shown == features(map.geoData, mapProps(gameState))
    IN  [f \in 1..Len(shown) |-> shown[f].feature]

\* the filtered feature of the target, if the data has it
targetFeatures ==
    LET targetCountry == gameState.currentCountry.name
        targetFeature == findFeature(map.geoData, targetCountry)
    IN  IF targetFeature = Undefined THEN <<>>
        ELSE <<filterFeatureGeometry(targetFeature, targetCountry)>>

\* the lists calculateBounds is given: the target alone (the viewBox), and
\* the countries on display
BoundsLists == IF MapShown THEN {targetFeatures, shownFeatures} ELSE {}

\* C25: the box of calculateBounds holds every point drawn for the same
\* features, is the same for the list in the opposite order, and has
\* minX <= maxX and minY <= maxY when the features have a point.
C25_BoundsContainDrawn ==
    \A list \in BoundsLists :
        LET bounds == calculateBounds(list)
        IN  /\ \A point \in drawnPoints(list) :
                  /\ bounds.minX <= point[1] /\ point[1] <= bounds.maxX
                  /\ bounds.minY <= point[2] /\ point[2] <= bounds.maxY
            /\ calculateBounds(reversed(list)) = bounds
            /\ drawnPoints(list) # {} =>
                  bounds.minX <= bounds.maxX /\ bounds.minY <= bounds.maxY

\* the smallest box around a set of projected points
boxOf(points) ==
    [minX |-> min({point[1] : point \in points}),
     maxX |-> max({point[1] : point \in points}),
     minY |-> min({point[2] : point \in points}),
     maxY |-> max({point[2] : point \in points})]

\* the box of every country on display with 5% of its size added on each
\* side, scaled by zoomLevel about the centre of the target: x, y, width
\* and height in 720ths, for boxes in ninths and zoomLevel in quarters
framedViewBox(displayed, target, zoomLevel) ==
    LET width == displayed.maxX - displayed.minX
        height == displayed.maxY - displayed.minY
        centerX == 40 * (target.minX + target.maxX)
        centerY == 40 * (target.minY + target.maxY)
        paddedX == 80 * displayed.minX - 4 * width
        paddedY == 80 * displayed.minY - 4 * height
    IN  << centerX + zoomLevel * ((paddedX - centerX) \div 4),
           centerY + zoomLevel * ((paddedY - centerY) \div 4),
           22 * width * zoomLevel,
           22 * height * zoomLevel >>

\* C22: on a map whose target has a geometry, the viewBox is the box of the
\* drawn (antimeridian-corrected) geometries of the target and of the
\* neighbour countries on display, padded by 5% and scaled by the zoom level
\* about the centre of the target.
C22_ViewBoxFramesDisplayed ==
    (MapShown /\ drawnPoints(targetFeatures) # {}) =>
        viewBox(map.geoData, gameState.currentCountry.name, map.zoomLevel)
            = framedViewBox(boxOf(drawnPoints(shownFeatures)),
                            boxOf(drawnPoints(targetFeatures)),
                            map.zoomLevel)

====
